---- MODULE Spec2Model ----
(***************************************************************************)
(* Quadrature encoder of LiteX-CNC: the synchronous logic of EncoderModule *)
(* (encoder.py), its wiring to the MMIO registers by create_from_config,   *)
(* and the validation of EncoderConfig.                                    *)
(*                                                                         *)
(* One clock edge is one action.  Every statement of a Migen sync block    *)
(* reads the values of before the edge; when several statements assign the *)
(* same signal on one edge, the last one in the block wins.  The sync      *)
(* statements of a parent module precede those of its submodules.          *)
(***************************************************************************)
EXTENDS Integers, FiniteSets, Sequences, TLC

\* ------------------------------------------------------------------ bounds
\* Largest magnitude of a field value handed to the validator.
MaxRaw == 2
\* Clock edges over which the wall clock is followed.
MaxTicks == 3
\* Most instances of pwm, stepgen and encoder in a generated firmware.
MaxInstances == 2
\* Edges over which a changed pad level is held and followed.
MaxHeld == 5
\* Distance between reset_value and a configured bound.
MaxSpan == 1
\* Largest distance from reset_value at which the counter is followed.
MaxTravel == 2
\* Where the history counters of resets and clears stop counting.
MaxEvents == 2
\* Most count-up and count-down events of a saturation run.
MaxUps == 60
MaxDowns == 200

\* ---------------------------------------------------------------- constants
COUNTER_SIZE == 32

\* Width of MMIO.wall_clock.
WALL_CLOCK_SIZE == 64

\* Largest and smallest value of the signed counter (2^31 - 1 and -2^31).
MaxCounter == (2 ^ (COUNTER_SIZE - 2) - 1) + 2 ^ (COUNTER_SIZE - 2)
MinCounter == (-MaxCounter) - 1

\* An optional field: None, or a set holding the one value.
None == {}
Some(v) == {v}
Val(o) == CHOOSE v \in o : TRUE

VARIABLES
    cfg,                \* instance -> its EncoderConfig
    counter,            \* instance -> EncoderModule.counter
    index_pulse,        \* instance -> EncoderModule.index_pulse
    index_enable,       \* instance -> EncoderModule.index_enable
    reset_index_pulse,  \* instance -> EncoderModule.reset_index_pulse
    reset,              \* instance -> EncoderModule.reset
    pin_A_delayed,      \* instance -> history of pin_A, slots 0..2
    pin_B_delayed,      \* instance -> history of pin_B, slots 0..2
    pin_Z_delayed,      \* instance -> history of pin_Z, slots 0..2
    pc,                 \* where the test bench is: writing, or at its yield
    mmio_index_enable,      \* bit -> MMIO.encoder_index_enable.storage
    mmio_reset_index_pulse, \* bit -> MMIO.encoder_reset_index_pulse.storage
    mmio_reset,             \* MMIO.reset.storage
    mmio_counter,           \* instance -> MMIO.encoder_<i>_counter.status
    index_resets,       \* history: resets by the index since the host armed it
    pulse_clears,       \* history: index pulses cleared since the host's acknowledge
    run,                \* history: the count events of a saturation run
    quad,               \* history: the pad transitions of a quadrature run
    probe,              \* history: one level change of a pad, and the edges since
    fields,             \* the field values an EncoderConfig is constructed from
    validated,          \* what the construction gave: the config, or an error
    wall_clock,             \* bit -> MMIO.wall_clock.status
    watchdog_data,          \* MMIO.watchdog_data.storage[31]
    watchdog_enable,        \* WatchDogModule.enable
    watchdog_has_bitten,    \* MMIO.watchdog_has_bitten.status
    firmware,           \* generation -> the LitexCNC_Firmware it is given
    regmap,             \* generation -> the registers of its MMIO, in order
    wiring              \* generation -> what create_from_config connects

encoder == <<cfg, counter, index_pulse, index_enable, reset_index_pulse, reset,
             pin_A_delayed, pin_B_delayed, pin_Z_delayed>>
mmio == <<mmio_index_enable, mmio_reset_index_pulse, mmio_reset, mmio_counter>>
history == <<index_resets, pulse_clears, run>>
\* What a specification of one part of the design leaves aside.
validation == <<fields, validated>>
clock == <<wall_clock, watchdog_data, watchdog_enable, watchdog_has_bitten>>
layout == <<firmware, regmap, wiring>>
elsewhere == <<quad, probe, validation, clock, layout>>
vars == <<encoder, pc, mmio, history, elsewhere>>

Units == DOMAIN cfg

\* ------------------------------------------------------------ EncoderConfig
\* The validator with max_value <= min_value raising, in place of the warning.
check_min_max_reset_value_strict(values) ==
    /\ (values.min_value # None => ~(values.reset_value < Val(values.min_value)))
    /\ (values.max_value # None => ~(values.reset_value > Val(values.max_value)))
    /\ (values.min_value # None /\ values.max_value # None
            => ~(Val(values.max_value) <= Val(values.min_value)))

\* The root validator: TRUE when the values are passed on, FALSE when it raises.
check_min_max_reset_value(values) ==
    /\ (values.min_value # None => ~(values.reset_value < Val(values.min_value)))
    /\ (values.max_value # None => ~(values.reset_value > Val(values.max_value)))
    /\ (values.min_value # None /\ values.max_value # None
            => ~(Val(values.max_value) < Val(values.min_value)))

ResetValues == {0, 1}

OptionalBelow(r) == {None, Some(r - MaxSpan)}
OptionalAbove(r) == {None, Some(r + MaxSpan)}

EncoderConfig ==
    {c \in UNION {[min_value : OptionalBelow(r), max_value : OptionalAbove(r),
                   reset_value : {r}, pin_Z : {None, Some("Z")}] : r \in ResetValues} :
        check_min_max_reset_value(c)}

\* ------------------------------------------------------------ EncoderModule
Xor(p, q) == p # q

Low == [k \in 0..2 |-> FALSE]

\* Cat(pin, delayed[:2]): the new sample enters slot 0, the others move up.
Cat(pin, delayed) == [k \in 0..2 |-> IF k = 0 THEN pin ELSE delayed[k - 1]]

\* The enable taken from the two latest samples.
count_ena_early(i) ==
    Xor(Xor(pin_A_delayed[i][0], pin_A_delayed[i][1]),
        Xor(pin_B_delayed[i][0], pin_B_delayed[i][1]))

count_ena(i) ==
    Xor(Xor(pin_A_delayed[i][1], pin_A_delayed[i][2]),
        Xor(pin_B_delayed[i][1], pin_B_delayed[i][2]))

\* The direction taken from the latest sample of channel A.
count_dir_latest(i) == Xor(pin_A_delayed[i][0], pin_B_delayed[i][2])

\* The direction taken from the other pair of slots.
count_dir_crossed(i) == Xor(pin_A_delayed[i][2], pin_B_delayed[i][1])

count_dir(i) == Xor(pin_A_delayed[i][1], pin_B_delayed[i][2])

\* The falling flank in its place.
index_flank_falling(i) == ~pin_Z_delayed[i][1] /\ pin_Z_delayed[i][2]

\* Rising flank of the delayed index signal.
index_flank(i) == pin_Z_delayed[i][1] /\ ~pin_Z_delayed[i][2]

\* Mutant: pin_Z follows the pad also when no pin_Z is configured.
pin_Z_connected(i, pad) == pad

\* The value driven on pin_Z: the pad when it exists, Constant(0) otherwise.
pin_Z(i, pad) == IF cfg[i].pin_Z # None THEN pad ELSE FALSE

\* counter + 1 and counter - 1 in a signed COUNTER_SIZE-bit field.
Increment(c) == IF c = MaxCounter THEN MinCounter ELSE c + 1
Decrement(c) == IF c = MinCounter THEN MaxCounter ELSE c - 1

\* Mutant: the increase without the comparison against max_value.
create_counter_increase_unchecked(encoder_config, c, assigned) == Increment(c)

\* `assigned` is what the statements before this one leave in the counter.
create_counter_increase(encoder_config, c, assigned) ==
    IF encoder_config.max_value # None
    THEN IF c < Val(encoder_config.max_value) THEN Increment(c) ELSE assigned
    ELSE Increment(c)

\* Mutant: the decrease without the comparison against min_value.
create_counter_decrease_unchecked(encoder_config, c, assigned) == Decrement(c)

create_counter_decrease(encoder_config, c, assigned) ==
    IF encoder_config.min_value # None
    THEN IF c > Val(encoder_config.min_value) THEN Decrement(c) ELSE assigned
    ELSE Decrement(c)

\* The condition of the reset statement.
\* The index flank resetting the counter without index_enable.
reset_condition_unarmed(i) == reset[i] \/ index_flank(i)

reset_condition(i) == reset[i] \/ (index_enable[i] /\ index_flank(i))

\* Mutant: counting is not suppressed on the edge of an index reset.
count_condition_unsuppressed(i) == count_ena(i)

\* The condition of the counting statement.
count_condition(i) == count_ena(i) /\ ~(index_enable[i] /\ index_flank(i))

\* Mutant: the reset line clears the latched pulse as well.
index_pulse_next_cleared_by_reset(i) ==
    IF reset[i] THEN FALSE
    ELSE IF reset_index_pulse[i] /\ index_pulse[i] THEN cfg[i].reset_value % 2 = 1
    ELSE IF index_flank(i) THEN TRUE ELSE index_pulse[i]

\* index_pulse after the edge: set on a flank, then the acknowledge statement,
\* which assigns reset_value to the one-bit signal (its lowest bit is kept).
index_pulse_next(i) ==
    LET set == IF index_flank(i) THEN TRUE ELSE index_pulse[i]
    IN  IF reset_index_pulse[i] /\ index_pulse[i]
        THEN cfg[i].reset_value % 2 = 1
        ELSE set

\* reset_index_pulse after the edge; `driven` is what the enclosing design
\* assigns before the module's own statements.
reset_index_pulse_next(i, driven) ==
    IF reset_index_pulse[i] /\ index_pulse[i] THEN FALSE ELSE driven

\* Mutant: index_enable is never cleared by the module.
index_enable_next_kept(i, driven) == driven

\* index_enable after the edge: cleared together with the counter reset.
index_enable_next(i, driven) ==
    IF reset_condition(i) THEN FALSE ELSE driven

counter_next(i) ==
    LET afterReset == IF reset_condition(i) THEN cfg[i].reset_value ELSE counter[i]
    IN  IF count_condition(i)
        THEN IF count_dir(i)
             THEN create_counter_increase(cfg[i], counter[i], afterReset)
             ELSE create_counter_decrease(cfg[i], counter[i], afterReset)
        ELSE afterReset

\* The counter values the model follows: those within MaxTravel of reset_value
\* (also through the wrap of the field), and everything between the bounds.
\* The sums are taken only where they stay inside the field.
Near(c, r) ==
    \/ /\ (c >= 0) = (r >= 0)
       /\ c - r <= MaxTravel
       /\ r - c <= MaxTravel
    \/ /\ c < 0 /\ r >= 0
       /\ \/ r <= c + MaxTravel
          \/ /\ MaxCounter - r <= MaxTravel
             /\ c - MinCounter <= MaxTravel
             /\ (MaxCounter - r) + (c - MinCounter) + 1 <= MaxTravel
    \/ /\ c >= 0 /\ r < 0
       /\ \/ c <= r + MaxTravel
          \/ /\ MaxCounter - c <= MaxTravel
             /\ r - MinCounter <= MaxTravel
             /\ (MaxCounter - c) + (r - MinCounter) + 1 <= MaxTravel

Followed(i, c) ==
    IF cfg[i].min_value # None /\ cfg[i].max_value # None
          /\ Val(cfg[i].min_value) <= c /\ c <= Val(cfg[i].max_value)
    THEN TRUE
    ELSE Near(c, cfg[i].reset_value)

\* The sync block of EncoderModule for every instance, on one clock edge.
\* pad_A, pad_B, pad_Z: the pad levels sampled by the edge; ie, rip, rst: what
\* the enclosing design assigns to index_enable, reset_index_pulse and reset.
ClockEdge(pad_A, pad_B, pad_Z, ie, rip, rst) ==
    /\ \A i \in Units : Followed(i, counter_next(i))
    /\ pin_A_delayed' = [i \in Units |-> Cat(pad_A[i], pin_A_delayed[i])]
    /\ pin_B_delayed' = [i \in Units |-> Cat(pad_B[i], pin_B_delayed[i])]
    /\ pin_Z_delayed' = [i \in Units |-> Cat(pin_Z(i, pad_Z[i]), pin_Z_delayed[i])]
    /\ index_pulse' = [i \in Units |-> index_pulse_next(i)]
    /\ reset_index_pulse' = [i \in Units |-> reset_index_pulse_next(i, rip[i])]
    /\ index_enable' = [i \in Units |-> index_enable_next(i, ie[i])]
    /\ counter' = [i \in Units |-> counter_next(i)]
    /\ reset' = rst
    /\ UNCHANGED cfg

\* --------------------------------------------- the module under simulation
\* run_simulation(encoder, test_encoder(encoder)): one module, whose pads and
\* exported fields are written by the test bench between clock edges.  There
\* is no MMIO around it.
Pads == [Units -> BOOLEAN]

NoRun == [phase |-> "none", ups |-> 0, downs |-> 0]

InitEncoder(units) ==
    /\ counter = [i \in units |-> cfg[i].reset_value]
    /\ index_pulse = [i \in units |-> FALSE]
    /\ index_enable = [i \in units |-> FALSE]
    /\ reset_index_pulse = [i \in units |-> FALSE]
    /\ reset = [i \in units |-> FALSE]
    /\ pin_A_delayed = [i \in units |-> Low]
    /\ pin_B_delayed = [i \in units |-> Low]
    /\ pin_Z_delayed = [i \in units |-> Low]

NoMMIO ==
    /\ mmio_index_enable = <<>>
    /\ mmio_reset_index_pulse = <<>>
    /\ mmio_reset = FALSE
    /\ mmio_counter = <<>>

NoHistory ==
    /\ index_resets = <<>>
    /\ pulse_clears = <<>>
    /\ run = NoRun

NoQuad == <<>>
NoProbe == <<>>

NoValidation ==
    /\ fields = <<>>
    /\ validated = <<>>

NoClock ==
    /\ wall_clock = <<>>
    /\ watchdog_data = FALSE
    /\ watchdog_enable = FALSE
    /\ watchdog_has_bitten = FALSE

NoLayout ==
    /\ firmware = <<>>
    /\ regmap = <<>>
    /\ wiring = <<>>

NothingElse ==
    /\ quad = NoQuad
    /\ probe = NoProbe
    /\ NoValidation
    /\ NoClock
    /\ NoLayout

Init ==
    /\ cfg \in [{0} -> EncoderConfig]
    /\ InitEncoder({0})
    /\ pc = "bench"
    /\ NoMMIO
    /\ NoHistory
    /\ NothingElse

\* The statements of the test loop before its yield: the bench writes the
\* exported fields (yield encoder.index_enable.eq(v), and so on).
BenchWrite ==
    /\ pc = "bench"
    /\ index_enable' \in [Units -> BOOLEAN]
    /\ reset_index_pulse' \in [Units -> BOOLEAN]
    /\ reset' \in [Units -> BOOLEAN]
    /\ pc' = "yield"
    /\ UNCHANGED <<cfg, counter, index_pulse, pin_A_delayed, pin_B_delayed,
                   pin_Z_delayed, mmio, history, elsewhere>>

\* yield: the clock edge; the exported fields keep what the bench wrote.
Tick ==
    /\ pc = "yield"
    /\ \E pad_A \in Pads, pad_B \in Pads, pad_Z \in Pads :
          ClockEdge(pad_A, pad_B, pad_Z, index_enable, reset_index_pulse, reset)
    /\ pc' = "bench"
    /\ UNCHANGED <<mmio, history, elsewhere>>

Next == BenchWrite \/ Tick

Spec == Init /\ [][Next]_vars

\* ------------------------------------------------------ the assembled device
\* The wiring with instance 1 reading the flag bits of instance 0.
SoCEdge_bit_0(pad_A, pad_B, pad_Z) ==
    /\ ClockEdge(pad_A, pad_B, pad_Z,
                 [i \in Units |-> mmio_index_enable[IF i = 1 THEN 0 ELSE i]],
                 [i \in Units |-> mmio_reset_index_pulse[IF i = 1 THEN 0 ELSE i]],
                 [i \in Units |-> mmio_reset])
    /\ mmio_counter' = counter
    /\ UNCHANGED <<mmio_index_enable, mmio_reset_index_pulse, mmio_reset>>

\* create_from_config: soc.sync assigns reset, index_enable and
\* reset_index_pulse of every instance from the MMIO storage, and the counter
\* to its status register; the module's own statements come after these.
\* The storage registers are written by the host alone: nothing drives their
\* device-side write port.
SoCEdge(pad_A, pad_B, pad_Z) ==
    /\ ClockEdge(pad_A, pad_B, pad_Z, mmio_index_enable, mmio_reset_index_pulse,
                 [i \in Units |-> mmio_reset])
    /\ mmio_counter' = counter
    /\ UNCHANGED <<mmio_index_enable, mmio_reset_index_pulse, mmio_reset>>

\* MMIO.encoder_index_pulse.status, combinatorial: Cat(index_pulse), with
\* Constant(0) in the place of an instance without pin_Z.
mmio_index_pulse ==
    [i \in Units |-> IF cfg[i].pin_Z # None THEN index_pulse[i] ELSE FALSE]

\* The device after construction, with the instances `units`.
InitSoC(units) ==
    /\ InitEncoder(units)
    /\ pc = "run"
    /\ mmio_index_enable = [i \in units |-> FALSE]
    /\ mmio_reset_index_pulse = [i \in units |-> FALSE]
    /\ mmio_reset = FALSE
    /\ mmio_counter = [i \in units |-> 0]

BothBounds(c) == c.min_value # None /\ c.max_value # None

Bump(n) == IF n < MaxEvents THEN n + 1 ELSE n

\* --- the host arms index_enable once
IndexedConfig == {c \in EncoderConfig : c.pin_Z # None /\ BothBounds(c)}

InitArmOnce ==
    /\ cfg \in [{0} -> IndexedConfig]
    /\ InitSoC({0})
    /\ index_resets = [i \in {0} |-> 0]
    /\ pulse_clears = <<>>
    /\ run = NoRun
    /\ NothingElse

\* The host writes 1 to a bit of encoder_index_enable that it has not set yet.
ArmIndexEnable ==
    /\ \E i \in Units :
          /\ ~mmio_index_enable[i]
          /\ mmio_index_enable' = [mmio_index_enable EXCEPT ![i] = TRUE]
    /\ UNCHANGED <<encoder, pc, mmio_reset_index_pulse, mmio_reset, mmio_counter,
                   history, elsewhere>>

\* The clock edge; index_resets counts the edges on which the index resets
\* the counter.
ArmedTick ==
    /\ \E pad_A \in Pads, pad_B \in Pads, pad_Z \in Pads : SoCEdge(pad_A, pad_B, pad_Z)
    /\ index_resets' =
          [i \in Units |-> IF index_enable[i] /\ index_flank(i)
                           THEN Bump(index_resets[i]) ELSE index_resets[i]]
    /\ UNCHANGED <<pc, pulse_clears, run, elsewhere>>

NextArmOnce == ArmIndexEnable \/ ArmedTick

SpecArmOnce == InitArmOnce /\ [][NextArmOnce]_vars

\* --- the host acknowledges the index pulse once
InitAckOnce ==
    /\ cfg \in [{0} -> IndexedConfig]
    /\ InitSoC({0})
    /\ index_resets = <<>>
    /\ pulse_clears = [i \in {0} |-> 0]
    /\ run = NoRun
    /\ NothingElse

\* The host writes 1 to a bit of encoder_reset_index_pulse that it has not
\* set yet.
AcknowledgeIndexPulse ==
    /\ \E i \in Units :
          /\ ~mmio_reset_index_pulse[i]
          /\ mmio_reset_index_pulse' = [mmio_reset_index_pulse EXCEPT ![i] = TRUE]
    /\ UNCHANGED <<encoder, pc, mmio_index_enable, mmio_reset, mmio_counter,
                   history, elsewhere>>

\* The clock edge; pulse_clears counts the edges on which a latched
\* index_pulse is cleared.
AcknowledgedTick ==
    /\ \E pad_A \in Pads, pad_B \in Pads, pad_Z \in Pads : SoCEdge(pad_A, pad_B, pad_Z)
    /\ pulse_clears' =
          [i \in Units |-> IF index_pulse[i] /\ ~index_pulse'[i]
                           THEN Bump(pulse_clears[i]) ELSE pulse_clears[i]]
    /\ UNCHANGED <<pc, index_resets, run, elsewhere>>

NextAckOnce == AcknowledgeIndexPulse \/ AcknowledgedTick

SpecAckOnce == InitAckOnce /\ [][NextAckOnce]_vars

\* --- two copies of an instance without pin_Z
\* Instances 0 and 1 have the same configuration and see the same pads A and
\* B and the same reset register; their index_enable bits are written
\* independently, and the host acknowledges nothing.
UnindexedConfig == {c \in EncoderConfig : c.pin_Z = None /\ BothBounds(c)}

InitNoIndex ==
    /\ \E c \in UnindexedConfig : cfg = [i \in {0, 1} |-> c]
    /\ InitSoC({0, 1})
    /\ NoHistory
    /\ NothingElse

HostWriteIndexEnable ==
    /\ mmio_index_enable' \in [Units -> BOOLEAN]
    /\ UNCHANGED <<encoder, pc, mmio_reset_index_pulse, mmio_reset, mmio_counter,
                   history, elsewhere>>

HostWriteReset ==
    /\ mmio_reset' \in BOOLEAN
    /\ UNCHANGED <<encoder, pc, mmio_index_enable, mmio_reset_index_pulse,
                   mmio_counter, history, elsewhere>>

TickAlike ==
    /\ \E a \in BOOLEAN, b \in BOOLEAN, pad_Z \in Pads :
          SoCEdge([i \in Units |-> a], [i \in Units |-> b], pad_Z)
    /\ UNCHANGED <<pc, history, elsewhere>>

NextNoIndex ==
    HostWriteIndexEnable \/ HostWriteReset \/ TickAlike

SpecNoIndex == InitNoIndex /\ [][NextNoIndex]_vars

\* --- a saturation run of the module under simulation
\* The configuration of the simulation at the end of encoder.py, and the
\* small ones; the bench leaves index_enable, reset_index_pulse and reset low.
TestConfig ==
    [min_value |-> Some(40), max_value |-> Some(150), reset_value |-> 100,
     pin_Z |-> None]

SaturationConfig == {TestConfig} \cup UnindexedConfig

Min(x, y) == IF x < y THEN x ELSE y
Max(x, y) == IF x > y THEN x ELSE y

\* A run holds at most twice the events the range has room for, and two more.
UpsCap(c) == Min(MaxUps, 2 * (Val(c.max_value) - c.reset_value) + 2)
DownsCap(c) == Min(MaxDowns, 2 * (Val(c.max_value) - Val(c.min_value)) + 2)

InitSaturate ==
    /\ cfg \in [{0} -> SaturationConfig]
    /\ InitEncoder({0})
    /\ pc = "yield"
    /\ NoMMIO
    /\ index_resets = <<>>
    /\ pulse_clears = <<>>
    /\ run = [phase |-> "up", ups |-> 0, downs |-> 0]
    /\ NothingElse

\* The run after an edge: count-ups, then count-downs; a count-up after a
\* count-down ends it.
RunAfter(i) ==
    IF ~count_condition(i) THEN run
    ELSE IF count_dir(i)
         THEN IF run.phase = "up" THEN [run EXCEPT !.ups = @ + 1]
              ELSE [run EXCEPT !.phase = "over"]
         ELSE [run EXCEPT !.phase = "down", !.downs = @ + 1]

CountTick ==
    /\ run.phase # "over"
    /\ RunAfter(0).ups <= UpsCap(cfg[0])
    /\ RunAfter(0).downs <= DownsCap(cfg[0])
    /\ \E pad_A \in Pads, pad_B \in Pads, pad_Z \in Pads :
          ClockEdge(pad_A, pad_B, pad_Z, index_enable, reset_index_pulse, reset)
    /\ run' = RunAfter(0)
    /\ UNCHANGED <<pc, mmio, index_resets, pulse_clears, elsewhere>>

NextSaturate == CountTick

SpecSaturate == InitSaturate /\ [][NextSaturate]_vars

\* --- one bound only, next to the end of the counter's field
\* A counter with one bound defined is free on the other side, where
\* counter.eq(counter + 1) keeps the 32 low bits of the sum.  The simulation of
\* the module, with reset_value two events away from the end of the field.
OneSidedConfig ==
    {[min_value |-> Some((MaxCounter - 1) - MaxSpan), max_value |-> None,
      reset_value |-> MaxCounter - 1, pin_Z |-> None],
     [min_value |-> None, max_value |-> Some((MinCounter + 1) + MaxSpan),
      reset_value |-> MinCounter + 1, pin_Z |-> None]}

InitOneSided ==
    /\ cfg \in [{0} -> {c \in OneSidedConfig : check_min_max_reset_value(c)}]
    /\ InitEncoder({0})
    /\ pc = "bench"
    /\ NoMMIO
    /\ NoHistory
    /\ NothingElse

NextOneSided == BenchWrite \/ Tick

SpecOneSided == InitOneSided /\ [][NextOneSided]_vars

\* --- the construction of an EncoderConfig
\* EncoderConfig(**values): pydantic runs the root validator on the field
\* values; the model is built from what the validator returns, or the
\* ValueError it raises ends the construction.
RawOptional == {None} \cup {Some(v) : v \in (-MaxRaw)..MaxRaw}

RawValues ==
    [min_value : RawOptional, max_value : RawOptional,
     reset_value : (-MaxRaw)..MaxRaw, pin_Z : {None, Some("Z")}]

InitConstruct ==
    /\ cfg = <<>>
    /\ InitEncoder({})
    /\ pc = "construct"
    /\ NoMMIO
    /\ NoHistory
    /\ quad = NoQuad
    /\ probe = NoProbe
    /\ NoClock
    /\ NoLayout
    /\ fields \in RawValues
    /\ validated = [done |-> FALSE, raised |-> FALSE, config |-> None]

Construct ==
    /\ pc = "construct"
    /\ validated' =
          IF check_min_max_reset_value(fields)
          THEN [done |-> TRUE, raised |-> FALSE, config |-> Some(fields)]
          ELSE [done |-> TRUE, raised |-> TRUE, config |-> None]
    /\ pc' = "constructed"
    /\ UNCHANGED <<encoder, mmio, history, quad, probe, fields, clock, layout>>

NextConstruct == Construct

SpecConstruct == InitConstruct /\ [][NextConstruct]_vars

\* --- a quadrature run of the module under simulation
\* A module without bounds; the bench leaves index_enable, reset_index_pulse
\* and reset low and drives the pads.  quad keeps, for every instance, the
\* rotation steps of the pads: a step sampled by an edge is in pending[1]
\* after it, in pending[2] after the next, and in net after the third.
UnboundedConfig == {c \in EncoderConfig : c.min_value = None /\ c.max_value = None}

\* The place of the pad levels in the rotation 00, 10, 11, 01 (A leads B).
Phase(a, b) == IF a THEN (IF b THEN 2 ELSE 1) ELSE (IF b THEN 3 ELSE 0)

\* One step forward (1), one step backward (-1), or no step: the levels are
\* the same, or both channels have changed.
Rotation(from_A, from_B, to_A, to_B) ==
    LET d == (Phase(to_A, to_B) - Phase(from_A, from_B)) % 4
    IN  IF d = 1 THEN 1 ELSE IF d = 3 THEN -1 ELSE 0

InitQuadrature ==
    /\ cfg \in [{0} -> UnboundedConfig]
    /\ InitEncoder({0})
    /\ pc = "yield"
    /\ NoMMIO
    /\ NoHistory
    /\ quad = [i \in {0} |-> [net |-> 0, pending |-> <<0, 0>>]]
    /\ probe = NoProbe
    /\ NoValidation
    /\ NoClock
    /\ NoLayout

QuadTick ==
    /\ \E pad_A \in Pads, pad_B \in Pads, pad_Z \in Pads :
          /\ ClockEdge(pad_A, pad_B, pad_Z, index_enable, reset_index_pulse, reset)
          /\ quad' =
                [i \in Units |->
                    [net |-> quad[i].net + quad[i].pending[2],
                     pending |-> <<Rotation(pin_A_delayed[i][0], pin_B_delayed[i][0],
                                            pad_A[i], pad_B[i]),
                                   quad[i].pending[1]>>]]
    /\ UNCHANGED <<pc, mmio, history, probe, validation, clock, layout>>

NextQuadrature == QuadTick

SpecQuadrature == InitQuadrature /\ [][NextQuadrature]_vars

\* --- the wall clock of the device
\* _LitexCNC_SoC.__init__: soc.sync copies bit 31 of watchdog_data to the
\* watchdog's enable, the watchdog's has_bitten to its status register, and
\* assigns wall_clock.status + 1 to wall_clock.status.  The register is a
\* vector of WALL_CLOCK_SIZE bits, bit 0 the lowest.
Word(ones) == [k \in 0..(WALL_CLOCK_SIZE - 1) |-> k \in ones]

\* The carry into bit k of status + 1.
RECURSIVE Carry(_, _)
Carry(w, k) == IF k = 0 THEN TRUE ELSE w[k - 1] /\ Carry(w, k - 1)

\* status + 1 in the width of the register: the carry out of the top is lost.
Plus1(w) == [k \in DOMAIN w |-> Xor(w[k], Carry(w, k))]

\* The wall clock held while the reset register is set.
wall_clock_next_held_in_reset == IF mmio_reset THEN wall_clock ELSE Plus1(wall_clock)

wall_clock_next == Plus1(wall_clock)

\* The clock is followed from the construction (0), from 2^32 - 2 and from
\* 2^64 - 3, over MaxTicks edges.
WallClockStarts ==
    {Word({}), Word(1..31), Word((0..(WALL_CLOCK_SIZE - 1)) \ {1})}

RECURSIVE Ahead(_, _)
Ahead(w, n) == IF n = 0 THEN {w} ELSE {w} \cup Ahead(Plus1(w), n - 1)

WallClockFollowed == UNION {Ahead(w, MaxTicks) : w \in WallClockStarts}

InitWallClock ==
    /\ cfg \in [{0} -> UnindexedConfig]
    /\ InitSoC({0})
    /\ NoHistory
    /\ quad = NoQuad
    /\ probe = NoProbe
    /\ NoValidation
    /\ NoLayout
    /\ wall_clock \in WallClockStarts
    /\ watchdog_data = FALSE
    /\ watchdog_enable = FALSE
    /\ watchdog_has_bitten = FALSE

\* What the host does on an edge: nothing, or a write to a register.
HostWrites ==
    {[reg |-> "none", data |-> FALSE]}
        \cup [reg : {"reset", "watchdog_data"}, data : BOOLEAN]

\* A clock edge of the device.  has_bitten is the output of WatchDogModule;
\* the encoder counts up and down on pad A, pad B being held low.
SoCTick ==
    /\ wall_clock_next \in WallClockFollowed
    /\ wall_clock' = wall_clock_next
    /\ \E pad_A \in Pads, write \in HostWrites, has_bitten \in BOOLEAN :
          /\ ClockEdge(pad_A, [i \in Units |-> FALSE], [i \in Units |-> FALSE],
                       mmio_index_enable,
                       mmio_reset_index_pulse, [i \in Units |-> mmio_reset])
          /\ mmio_counter' = counter
          /\ mmio_reset' = IF write.reg = "reset" THEN write.data ELSE mmio_reset
          /\ watchdog_data' =
                IF write.reg = "watchdog_data" THEN write.data ELSE watchdog_data
          /\ watchdog_enable' = watchdog_data
          /\ watchdog_has_bitten' = has_bitten
    /\ UNCHANGED <<pc, mmio_index_enable, mmio_reset_index_pulse, history, quad,
                   probe, validation, layout>>

NextWallClock == SoCTick

SpecWallClock == InitWallClock /\ [][NextWallClock]_vars

\* --- the generation of the register map
\* MMIO.__init__ creates the registers as attributes, in the order of the
\* statements; the order of creation is the order of the map.  A register is
\* its name (block, index, field: pwm_<index>_enable), its size and its kind.
\* EncoderModule.add_mmio_write_registers and add_mmio_read_registers add the
\* registers of the encoders to the MMIO they are handed.
Name(block, index, field) == [block |-> block, index |-> index, field |-> field]

CSRStorage(name, size) == [name |-> name, size |-> size, kind |-> "CSRStorage"]
CSRStatus(name, size) == [name |-> name, size |-> size, kind |-> "CSRStatus"]

\* int(math.ceil(float(n)/32))*32
FlagSize(n) == (IF n % 32 = 0 THEN n \div 32 ELSE (n \div 32) + 1) * 32

\* for index, _ in enumerate(soc.pwm): enable, period, width
RECURSIVE pwm_registers(_)
pwm_registers(n) ==
    IF n = 0 THEN <<>>
    ELSE pwm_registers(n - 1)
            \o <<CSRStorage(Name("pwm", Some(n - 1), "enable"), 32),
                 CSRStorage(Name("pwm", Some(n - 1), "period"), 32),
                 CSRStorage(Name("pwm", Some(n - 1), "width"), 32)>>

\* for index, _ in enumerate(soc.stepgen): speed, max_acceleration
RECURSIVE stepgen_registers(_)
stepgen_registers(n) ==
    IF n = 0 THEN <<>>
    ELSE stepgen_registers(n - 1)
            \o <<CSRStorage(Name("stepgen", Some(n - 1), "speed"), 32),
                 CSRStorage(Name("stepgen", Some(n - 1), "max_acceleration"), 32)>>

\* for index, _ in enumerate(soc.stepgen): position
RECURSIVE stepgen_positions(_)
stepgen_positions(n) ==
    IF n = 0 THEN <<>>
    ELSE stepgen_positions(n - 1)
            \o <<CSRStatus(Name("stepgen", Some(n - 1), "position"), 64)>>

\* MMIO.__init__, OUTPUT: the registers written by the host.
MMIO_output(soc) ==
    <<CSRStorage(Name("watchdog", None, "data"), 32),
      CSRStorage(Name("gpio_out", None, ""), FlagSize(soc.gpio_out))>>
        \o pwm_registers(soc.pwm)
        \o <<CSRStorage(Name("stepgen", None, "steplen"), 32),
             CSRStorage(Name("stepgen", None, "dir_hold_time"), 32),
             CSRStorage(Name("stepgen", None, "dir_setup_time"), 32),
             CSRStorage(Name("stepgen", None, "apply_time"), 64)>>
        \o stepgen_registers(soc.stepgen)

\* MMIO.__init__, INPUT: the registers read by the host.
MMIO_input(soc) ==
    <<CSRStatus(Name("watchdog", None, "has_bitten"), 1),
      CSRStatus(Name("wall_clock", None, ""), 64),
      CSRStatus(Name("gpio_in", None, ""), FlagSize(soc.gpio_in))>>
        \o stepgen_positions(soc.stepgen)

\* The flag registers sized by the encoders that have an index input.
add_mmio_write_registers_by_index(config) ==
    IF Len(config) = 0 THEN <<>>
    ELSE LET indexed == Len(SelectSeq(config, LAMBDA c : c.pin_Z # None))
         IN  <<CSRStorage(Name("encoder", None, "index_enable"), FlagSize(indexed)),
               CSRStorage(Name("encoder", None, "reset_index_pulse"), FlagSize(indexed))>>

\* EncoderModule.add_mmio_write_registers(mmio, config)
add_mmio_write_registers(config) ==
    IF Len(config) = 0 THEN <<>>
    ELSE <<CSRStorage(Name("encoder", None, "index_enable"), FlagSize(Len(config))),
           CSRStorage(Name("encoder", None, "reset_index_pulse"), FlagSize(Len(config)))>>

\* for index in range(len(config)): encoder_<index>_counter
RECURSIVE encoder_counters(_)
encoder_counters(n) ==
    IF n = 0 THEN <<>>
    ELSE encoder_counters(n - 1)
            \o <<CSRStatus(Name("encoder", Some(n - 1), "counter"), COUNTER_SIZE)>>

\* EncoderModule.add_mmio_read_registers(mmio, config)
add_mmio_read_registers(config) ==
    IF Len(config) = 0 THEN <<>>
    ELSE <<CSRStatus(Name("encoder", None, "index_pulse"), FlagSize(Len(config)))>>
            \o encoder_counters(Len(config))


\* for index, encoder_config in enumerate(config): the bits of the flag
\* registers the instance reads, and the register its counter goes to.
RECURSIVE connections(_, _)
connections(config, n) ==
    IF n = 0 THEN <<>>
    ELSE Append(connections(config, n - 1),
                [index_enable |-> n - 1, reset_index_pulse |-> n - 1,
                 counter |-> Name("encoder", Some(n - 1), "counter")])

\* index_pulse.append(encoder.index_pulse if pin_Z is not None else
\* Constant(0)): the instance whose index_pulse is appended, or None for the
\* constant.  Cat(index_pulse) puts element k of the list at bit k - 1.
RECURSIVE index_pulse_list(_, _)
index_pulse_list(config, n) ==
    IF n = 0 THEN <<>>
    ELSE Append(index_pulse_list(config, n - 1),
                IF config[n].pin_Z # None THEN Some(n - 1) ELSE None)

\* EncoderModule.create_from_config(soc, config)
create_from_config(config) ==
    [reads |-> connections(config, Len(config)),
     index_pulse |-> index_pulse_list(config, Len(config))]

\* The firmwares generated: two at a time, with the same numbers of
\* instances; their encoders are unbounded without pin_Z, or bounded with it.
Generations == {1, 2}
GpioCounts == {0, 1, 32, 33}
InstanceCounts == 0..MaxInstances

LayoutConfig ==
    {c \in EncoderConfig :
        /\ (c.pin_Z = None) = (c.min_value = None)
        /\ (c.pin_Z = None) = (c.max_value = None)
        /\ (c.pin_Z = None) = (c.reset_value = 0)}

\* The order in which the registers are created: those of MMIO.__init__
\* written by the host, the write registers of the encoders, those of
\* MMIO.__init__ read by the host, the read registers of the encoders.
MMIO_stages == <<"output", "encoder_write", "input", "encoder_read">>

StageAfter(stage) ==
    LET k == CHOOSE j \in DOMAIN MMIO_stages : MMIO_stages[j] = stage
    IN  IF k < Len(MMIO_stages) THEN MMIO_stages[k + 1] ELSE "create_from_config"

InitGenerate ==
    /\ cfg = <<>>
    /\ InitEncoder({})
    /\ NoMMIO
    /\ NoHistory
    /\ quad = NoQuad
    /\ probe = NoProbe
    /\ NoValidation
    /\ NoClock
    /\ \E gpio_out \in GpioCounts, gpio_in \in GpioCounts,
          pwm \in InstanceCounts, stepgen \in InstanceCounts, n \in InstanceCounts :
          firmware \in [Generations ->
                           [gpio_out : {gpio_out}, gpio_in : {gpio_in}, pwm : {pwm},
                            stepgen : {stepgen}, encoders : [1..n -> LayoutConfig]]]
    /\ regmap = [g \in Generations |-> <<>>]
    /\ wiring = [g \in Generations |-> <<>>]
    /\ pc = MMIO_stages[1]

Created(registers) ==
    /\ regmap' = [g \in Generations |-> regmap[g] \o registers[g]]
    /\ pc' = StageAfter(pc)
    /\ UNCHANGED <<encoder, mmio, history, quad, probe, validation, clock, firmware,
                   wiring>>

CreateOutput ==
    /\ pc = "output"
    /\ Created([g \in Generations |-> MMIO_output(firmware[g])])

CreateEncoderWrite ==
    /\ pc = "encoder_write"
    /\ Created([g \in Generations |-> add_mmio_write_registers(firmware[g].encoders)])

CreateInput ==
    /\ pc = "input"
    /\ Created([g \in Generations |-> MMIO_input(firmware[g])])

CreateEncoderRead ==
    /\ pc = "encoder_read"
    /\ Created([g \in Generations |-> add_mmio_read_registers(firmware[g].encoders)])

CreateFromConfig ==
    /\ pc = "create_from_config"
    /\ wiring' = [g \in Generations |-> create_from_config(firmware[g].encoders)]
    /\ pc' = "generated"
    /\ UNCHANGED <<encoder, mmio, history, quad, probe, validation, clock, firmware,
                   regmap>>

NextGenerate ==
    CreateOutput \/ CreateEncoderWrite \/ CreateInput \/ CreateEncoderRead
        \/ CreateFromConfig

SpecGenerate == InitGenerate /\ [][NextGenerate]_vars

\* --- two instances in one device, and each of them alone
\* Instances 0 and 1 are the encoders of one device.  Instance 2 is instance 0
\* alone in a device of its own, and 3 is instance 1 alone: the host writes
\* to the flag bit of 2 what it writes to bit 0, to that of 3 what it writes
\* to bit 1, and the same to the reset register of the three devices; 2 sees
\* the pads of 0 and 3 those of 1.  Instance 0 counts on pad A and instance 1
\* has the index pulses on pad Z; the other pads are held low, and the host
\* acknowledges nothing.
Original(i) == i % 2

InitIsolation ==
    /\ \E c \in IndexedConfig : cfg = [i \in 0..3 |-> c]
    /\ InitSoC(0..3)
    /\ NoHistory
    /\ NothingElse

HostWriteIndexEnableBits ==
    /\ \E bits \in [{0, 1} -> BOOLEAN] :
          mmio_index_enable' = [i \in Units |-> bits[Original(i)]]
    /\ UNCHANGED <<encoder, pc, mmio_reset_index_pulse, mmio_reset, mmio_counter,
                   history, elsewhere>>

TickIsolated ==
    /\ \E a \in BOOLEAN, z \in BOOLEAN :
          SoCEdge([i \in Units |-> a /\ Original(i) = 0], [i \in Units |-> FALSE],
                  [i \in Units |-> z /\ Original(i) = 1])
    /\ UNCHANGED <<pc, history, elsewhere>>

NextIsolation == HostWriteIndexEnableBits \/ HostWriteReset \/ TickIsolated

SpecIsolation == InitIsolation /\ [][NextIsolation]_vars

\* --- one level change of a pad, followed through the module
\* test_encoder drives the pads between the edges.  Here the bench holds both
\* pads at one level until the three slots of both histories carry it, then
\* changes one channel and holds the new levels; pad Z and the exported fields
\* are written freely.  probe.base is the counter before the edge that first
\* samples the change, probe.after the counter after the third edge, and
\* probe.clean tells that no edge since the change met a reset condition.
Settled == 3

InitLatency ==
    /\ cfg \in [{0} -> EncoderConfig]
    /\ InitEncoder({0})
    /\ pc = "bench"
    /\ NoMMIO
    /\ NoHistory
    /\ quad = NoQuad
    /\ \E a \in BOOLEAN, b \in BOOLEAN :
          probe = [phase |-> "settle", level_A |-> a, level_B |-> b,
                   stable |-> 0, age |-> 0, clean |-> TRUE, base |-> 0,
                   after |-> 0]
    /\ NoValidation
    /\ NoClock
    /\ NoLayout

\* yield with the pads at the given levels.
HoldPads(a, b) ==
    /\ pc = "yield"
    /\ \E pad_Z \in Pads :
          ClockEdge([i \in Units |-> a], [i \in Units |-> b], pad_Z,
                    index_enable, reset_index_pulse, reset)
    /\ pc' = "bench"
    /\ UNCHANGED <<mmio, history, quad, validation, clock, layout>>

SettleTick ==
    /\ probe.phase = "settle"
    /\ probe.stable < Settled
    /\ HoldPads(probe.level_A, probe.level_B)
    /\ probe' = [probe EXCEPT !.stable = @ + 1]

\* The edge that first samples the changed level of one channel.
ChangeTick ==
    /\ probe.phase = "settle"
    /\ probe.stable = Settled
    /\ \E on_A \in BOOLEAN :
          LET a == IF on_A THEN ~probe.level_A ELSE probe.level_A
              b == IF on_A THEN probe.level_B ELSE ~probe.level_B
          IN  /\ HoldPads(a, b)
              /\ probe' = [probe EXCEPT !.phase = "held", !.level_A = a,
                                        !.level_B = b, !.age = 1,
                                        !.clean = ~reset_condition(0),
                                        !.base = counter[0]]

HeldTick ==
    /\ probe.phase = "held"
    /\ probe.age < MaxHeld
    /\ HoldPads(probe.level_A, probe.level_B)
    /\ probe' = [probe EXCEPT !.age = @ + 1,
                              !.clean = @ /\ ~reset_condition(0),
                              !.after = IF probe.age = 2 THEN counter'[0] ELSE @]

NextLatency == BenchWrite \/ SettleTick \/ ChangeTick \/ HeldTick

SpecLatency == InitLatency /\ [][NextLatency]_vars


\* --- two runs of one module that part in the latest sample only
\* Two modules of the same configuration under the same bench: the exported
\* fields are written alike and the pads are driven alike, until one edge
\* samples different pad levels in the two runs (TickApart).  After it the
\* runs agree on everything but slot 0 of the histories; the next edge
\* (TickDecode) is the step of the sync block whose result is compared.  On
\* these two edges run 0 samples all pads low and run 1 any levels: two runs
\* that each decode as run 0 does decode alike.
Alike(v) == [i \in Units |-> v]

InitTwin ==
    /\ \E c \in IndexedConfig : cfg = [i \in {0, 1} |-> c]
    /\ InitEncoder({0, 1})
    /\ pc = "bench"
    /\ NoMMIO
    /\ NoHistory
    /\ NothingElse

WriteBoth ==
    /\ pc \in {"bench", "bench_apart"}
    /\ \E ie \in BOOLEAN, rip \in BOOLEAN, rst \in BOOLEAN :
          /\ index_enable' = Alike(ie)
          /\ reset_index_pulse' = Alike(rip)
          /\ reset' = Alike(rst)
    /\ pc' = IF pc = "bench" THEN "yield" ELSE "yield_apart"
    /\ UNCHANGED <<cfg, counter, index_pulse, pin_A_delayed, pin_B_delayed,
                   pin_Z_delayed, mmio, history, elsewhere>>

TickTogether ==
    /\ pc = "yield"
    /\ \E a \in BOOLEAN, b \in BOOLEAN, z \in BOOLEAN :
          ClockEdge(Alike(a), Alike(b), Alike(z), index_enable,
                    reset_index_pulse, reset)
    /\ pc' = "bench"
    /\ UNCHANGED <<mmio, history, elsewhere>>

TickApart ==
    /\ pc = "yield"
    /\ \E pad_A \in Pads, pad_B \in Pads, pad_Z \in Pads :
          /\ ~pad_A[0] /\ ~pad_B[0] /\ ~pad_Z[0]
          /\ pad_A[1] \/ pad_B[1] \/ pad_Z[1]
          /\ ClockEdge(pad_A, pad_B, pad_Z, index_enable, reset_index_pulse,
                       reset)
    /\ pc' = "bench_apart"
    /\ UNCHANGED <<mmio, history, elsewhere>>

TickDecode ==
    /\ pc = "yield_apart"
    /\ \E pad_A \in Pads, pad_B \in Pads, pad_Z \in Pads :
          /\ ~pad_A[0] /\ ~pad_B[0] /\ ~pad_Z[0]
          /\ ClockEdge(pad_A, pad_B, pad_Z, index_enable, reset_index_pulse,
                       reset)
    /\ pc' = "decoded"
    /\ UNCHANGED <<mmio, history, elsewhere>>

NextTwin == WriteBoth \/ TickTogether \/ TickApart \/ TickDecode

SpecTwin == InitTwin /\ [][NextTwin]_vars


\* ------------------------------------------------------------------ claims
\* C1: with both bounds defined, the counter is between min_value and
\* max_value in every state, whatever the pads and the host do.
C1_CounterWithinBounds ==
    \A i \in Units :
        BothBounds(cfg[i]) =>
            /\ Val(cfg[i].min_value) <= counter[i]
            /\ counter[i] <= Val(cfg[i].max_value)

\* A count-up is pending while the counter sits at max_value, above reset_value.
C1_Witness ==
    \E i \in Units :
        /\ BothBounds(cfg[i])
        /\ counter[i] = Val(cfg[i].max_value)
        /\ counter[i] > cfg[i].reset_value
        /\ pin_A_delayed[i][1] # pin_B_delayed[i][2]
        /\ (pin_A_delayed[i][1] # pin_A_delayed[i][2])
               # (pin_B_delayed[i][1] # pin_B_delayed[i][2])

\* C2: an edge on which index_enable, an index flank and a count event meet
\* leaves the counter at exactly reset_value.
C2_ResetWinsOverCount ==
    [][\A i \in Units :
          (/\ pc = "yield"
           /\ index_enable[i]
           /\ pin_Z_delayed[i][1] /\ ~pin_Z_delayed[i][2]
           /\ (pin_A_delayed[i][1] # pin_A_delayed[i][2])
                  # (pin_B_delayed[i][1] # pin_B_delayed[i][2]))
          => counter'[i] = cfg[i].reset_value]_vars

\* The three meet while the counter is away from reset_value.
C2_Witness ==
    \E i \in Units :
        /\ pc = "yield"
        /\ index_enable[i]
        /\ pin_Z_delayed[i][1] /\ ~pin_Z_delayed[i][2]
        /\ (pin_A_delayed[i][1] # pin_A_delayed[i][2])
               # (pin_B_delayed[i][1] # pin_B_delayed[i][2])
        /\ counter[i] # cfg[i].reset_value
        /\ ~reset[i]

\* C3: an edge with the reset line asserted leaves the counter at reset_value
\* and index_enable false, whatever the histories are.
C3_ResetLineResets ==
    [][\A i \in Units :
          (pc = "yield" /\ reset[i])
          => (counter'[i] = cfg[i].reset_value /\ ~index_enable'[i])]_vars

\* C4: an edge with index_enable true and an index flank leaves index_enable
\* false, with no host action.
C4_IndexEnableOneShot ==
    [][\A i \in Units :
          (pc = "yield" /\ index_enable[i] /\ pin_Z_delayed[i][1] /\ ~pin_Z_delayed[i][2])
          => ~index_enable'[i]]_vars

\* index_enable is set when the flank arrives, the reset line being low.
C4_Witness ==
    \E i \in Units :
        /\ pc = "yield"
        /\ index_enable[i]
        /\ pin_Z_delayed[i][1] /\ ~pin_Z_delayed[i][2]
        /\ ~reset[i]

\* C6: an edge with reset_index_pulse and index_pulse both true leaves both
\* false, for every reset_value.
C6_AcknowledgeClears ==
    [][\A i \in Units :
          (pc = "yield" /\ reset_index_pulse[i] /\ index_pulse[i])
          => (~index_pulse'[i] /\ ~reset_index_pulse'[i])]_vars

\* C9: an edge with reset_index_pulse false and no index flank leaves
\* index_pulse as it was.
C9_IndexPulseStable ==
    [][\A i \in Units :
          (pc = "yield" /\ ~reset_index_pulse[i]
                /\ ~(pin_Z_delayed[i][1] /\ ~pin_Z_delayed[i][2]))
          => index_pulse'[i] = index_pulse[i]]_vars

\* A latched pulse, no acknowledge, no flank, the reset line asserted and a
\* count event pending.
C9_Witness ==
    \E i \in Units :
        /\ pc = "yield"
        /\ index_pulse[i]
        /\ ~reset_index_pulse[i]
        /\ ~(pin_Z_delayed[i][1] /\ ~pin_Z_delayed[i][2])
        /\ reset[i]
        /\ (pin_A_delayed[i][1] # pin_A_delayed[i][2])
               # (pin_B_delayed[i][1] # pin_B_delayed[i][2])

\* C5: after the host has written 1 once to a bit of encoder_index_enable,
\* at most one index flank of that instance resets its counter.
C5_ArmedOnceResetsOnce == \A i \in Units : index_resets[i] <= 1

\* C7: one host write of 1 to a bit of encoder_reset_index_pulse clears only
\* the pulse pending then; a pulse latched later stays set.
C7_AcknowledgeClearsOnce == \A i \in Units : pulse_clears[i] <= 1

\* C8: after `ups` count-up events followed by `downs` count-down events,
\* with no reset, the counter is max(min(reset_value + ups, max_value) - downs,
\* min_value).
C8_Saturates ==
    run.phase \in {"up", "down"} =>
        counter[0] =
            Max(Min(cfg[0].reset_value + run.ups, Val(cfg[0].max_value)) - run.downs,
                Val(cfg[0].min_value))

\* min_value=40, max_value=150, reset_value=100: 60 count-ups, then 200
\* count-downs, and the counter is at 40.
C8_Witness ==
    /\ cfg[0] = TestConfig
    /\ run = [phase |-> "down", ups |-> 60, downs |-> 200]
    /\ counter[0] = 40

\* C10: two copies of an instance without pin_Z that differ only in the
\* writes to their index_enable bits have the same counter in every state,
\* and index_pulse and the bit of encoder_index_pulse are never set.
C10_IndexEnableInert ==
    /\ counter[0] = counter[1]
    /\ \A i \in Units : ~index_pulse[i] /\ ~mmio_index_pulse[i]

\* The copies are armed differently and have counted away from reset_value.
C10_Witness ==
    /\ index_enable[0] # index_enable[1]
    /\ mmio_index_enable[0] # mmio_index_enable[1]
    /\ counter[0] # cfg[0].reset_value
    /\ counter[1] # cfg[1].reset_value

\* C11: with only min_value defined the counter is at least min_value in
\* every state, and with only max_value defined it is at most max_value, also
\* after enough count events to pass the end of the signed 32-bit field.
C11_OneSidedBound ==
    \A i \in Units :
        /\ (cfg[i].min_value # None /\ cfg[i].max_value = None)
              => counter[i] >= Val(cfg[i].min_value)
        /\ (cfg[i].max_value # None /\ cfg[i].min_value = None)
              => counter[i] <= Val(cfg[i].max_value)

\* C15: the construction of an EncoderConfig raises exactly when min_value is
\* defined and reset_value is below it, or max_value is defined and
\* reset_value is above it, or both are defined and min_value is above
\* max_value; otherwise it gives the values unchanged, min_value = max_value
\* included.
C15_ValidatorRejectsExactly ==
    validated.done =>
        /\ validated.raised <=>
              \/ \E lo \in fields.min_value : fields.reset_value < lo
              \/ \E hi \in fields.max_value : fields.reset_value > hi
              \/ \E lo \in fields.min_value : \E hi \in fields.max_value : lo > hi
        /\ ~validated.raised => validated.config = {fields}

\* min_value = max_value = reset_value is constructed.
C15_Witness ==
    /\ validated.done
    /\ ~validated.raised
    /\ fields.min_value = {fields.reset_value}
    /\ fields.max_value = {fields.reset_value}

\* C17: with no bounds and no reset the counter is reset_value plus the
\* forward steps minus the backward steps of the pads that have passed the
\* three history slots: every single-channel step counts once, the steps of
\* one rotation count the same way, and an edge on which A and B change
\* together counts nothing.
C17_QuadratureCounts ==
    \A i \in Units : counter[i] = cfg[i].reset_value + quad[i].net

\* Two backward steps have been counted and a change of both channels is in
\* the history slots.
C17_Witness ==
    \E i \in Units :
        /\ quad[i].net = -2
        /\ pin_A_delayed[i][1] # pin_A_delayed[i][2]
        /\ pin_B_delayed[i][1] # pin_B_delayed[i][2]

\* C18: an edge with an index flank (Z[1] true, Z[2] false) leaves index_pulse
\* true, also when reset_index_pulse and an earlier index_pulse are both true
\* on that edge.
C18_EveryFlankLatched ==
    [][\A i \in Units :
          (pc = "yield" /\ pin_Z_delayed[i][1] /\ ~pin_Z_delayed[i][2])
          => index_pulse'[i]]_vars

\* C18, as it holds: an edge with an index flank leaves index_pulse true unless
\* reset_index_pulse and an earlier index_pulse are both true on that edge.
C18_FlankLatchedUnlessAcknowledged ==
    [][\A i \in Units :
          (/\ pc = "yield"
           /\ pin_Z_delayed[i][1] /\ ~pin_Z_delayed[i][2]
           /\ ~(reset_index_pulse[i] /\ index_pulse[i]))
          => index_pulse'[i]]_vars

\* A flank arrives while index_pulse is low and the bench asks for its reset.
C18_Witness ==
    \E i \in Units :
        /\ pc = "yield"
        /\ pin_Z_delayed[i][1] /\ ~pin_Z_delayed[i][2]
        /\ ~index_pulse[i]
        /\ reset_index_pulse[i]

\* C19: an edge with no count event, the reset line low and no index reset
\* leaves the counter as it was, whatever is written to index_enable and
\* reset_index_pulse; and after every edge the counter is the counter of
\* before, one more, one less, or reset_value.
C19_CounterFrame ==
    [][\A i \in Units :
          pc = "yield" =>
             /\ (/\ (pin_A_delayed[i][1] # pin_A_delayed[i][2])
                        = (pin_B_delayed[i][1] # pin_B_delayed[i][2])
                 /\ ~reset[i]
                 /\ ~(index_enable[i] /\ pin_Z_delayed[i][1] /\ ~pin_Z_delayed[i][2]))
                => counter'[i] = counter[i]
             /\ counter'[i] \in {counter[i], counter[i] + 1, counter[i] - 1,
                                 cfg[i].reset_value}]_vars

\* No count event, the reset line low, and an index flank arrives while
\* index_enable is low and reset_index_pulse is set; the counter is away from
\* reset_value.
C19_Witness ==
    \E i \in Units :
        /\ pc = "yield"
        /\ (pin_A_delayed[i][1] # pin_A_delayed[i][2])
               = (pin_B_delayed[i][1] # pin_B_delayed[i][2])
        /\ ~reset[i]
        /\ reset_index_pulse[i]
        /\ ~index_enable[i]
        /\ pin_Z_delayed[i][1] /\ ~pin_Z_delayed[i][2]
        /\ counter[i] # cfg[i].reset_value

\* C16: every clock edge leaves the wall clock at (wall_clock + 1) mod 2^64,
\* whatever the watchdog, the reset register and the encoder do: the bits up
\* to and including the lowest 0 bit are inverted (all of them when there is
\* none) and the bits above it stay; the clock after the edge is the larger
\* one unless all the bits were 1.
C16_WallClockFreeRunning ==
    [][LET bits == 0..(WALL_CLOCK_SIZE - 1)
           zeros == {k \in bits : ~wall_clock[k]}
           flipped == {k \in bits : \A z \in zeros : k <= z}
       IN  /\ wall_clock' = [k \in bits |-> IF k \in flipped THEN ~wall_clock[k]
                                            ELSE wall_clock[k]]
           /\ zeros # {} =>
                 \E k \in bits :
                     /\ ~wall_clock[k] /\ wall_clock'[k]
                     /\ \A j \in bits : j > k => wall_clock'[j] = wall_clock[j]]_vars

\* The clock has wrapped to 0 while the reset register is set, the watchdog
\* has bitten and the encoder has counted.
C16_Witness ==
    /\ wall_clock = Word({})
    /\ mmio_reset
    /\ watchdog_has_bitten
    /\ watchdog_enable
    /\ counter[0] # cfg[0].reset_value

\* The registers of `count` instances of a block, instance by instance, each
\* with the fields `names`.
C12_PerInstance(Register(_, _), block, count, names, size) ==
    [k \in 1..(count * Len(names)) |->
        Register(Name(block, {(k - 1) \div Len(names)},
                      names[((k - 1) % Len(names)) + 1]), size)]

\* The register map as listed for N gpio_out, N' gpio_in, M pwm, K stepgen and
\* E encoders; `omitting` leaves out the block of a type without instances.
C12_Listed(N, N_in, M, K, E, omitting) ==
    LET Block(count, registers) ==
            IF omitting /\ count = 0 THEN <<>> ELSE registers
        Width(count) == ((count + 31) \div 32) * 32
    IN  <<CSRStorage(Name("watchdog", {}, "data"), 32)>>
            \o Block(N, <<CSRStorage(Name("gpio_out", {}, ""), Width(N))>>)
            \o C12_PerInstance(CSRStorage, "pwm", M, <<"enable", "period", "width">>, 32)
            \o Block(K, <<CSRStorage(Name("stepgen", {}, "steplen"), 32),
                          CSRStorage(Name("stepgen", {}, "dir_hold_time"), 32),
                          CSRStorage(Name("stepgen", {}, "dir_setup_time"), 32),
                          CSRStorage(Name("stepgen", {}, "apply_time"), 64)>>)
            \o C12_PerInstance(CSRStorage, "stepgen", K, <<"speed", "max_acceleration">>, 32)
            \o Block(E, <<CSRStorage(Name("encoder", {}, "index_enable"), Width(E)),
                          CSRStorage(Name("encoder", {}, "reset_index_pulse"), Width(E))>>)
            \o <<CSRStatus(Name("watchdog", {}, "has_bitten"), 1),
                 CSRStatus(Name("wall_clock", {}, ""), 64)>>
            \o Block(N_in, <<CSRStatus(Name("gpio_in", {}, ""), Width(N_in))>>)
            \o C12_PerInstance(CSRStatus, "stepgen", K, <<"position">>, 64)
            \o Block(E, <<CSRStatus(Name("encoder", {}, "index_pulse"), Width(E))>>)
            \o C12_PerInstance(CSRStatus, "encoder", E, <<"counter">>, 32)

\* C12: for every configuration the generated register map is exactly the
\* listed one, in its order: the write side from watchdog_data to
\* encoder_reset_index_pulse, then the read side from watchdog_has_bitten to
\* the encoder counters.  The block of a type without instances may be read
\* as listed with the computed width or as left out.
C12_RegisterMapAsListed ==
    pc = "generated" =>
        \A g \in Generations :
            LET fw == firmware[g]
                E == Len(fw.encoders)
            IN  \/ regmap[g] = C12_Listed(fw.gpio_out, fw.gpio_in, fw.pwm, fw.stepgen, E, FALSE)
                \/ regmap[g] = C12_Listed(fw.gpio_out, fw.gpio_in, fw.pwm, fw.stepgen, E, TRUE)

\* C13: when the configuration has no instance of a type, the register map
\* has no register whose name starts with the prefix of the type, and it
\* never has a register of width 0.
C13_EmptyBlockOmitted ==
    \A g \in Generations :
        \A k \in DOMAIN regmap[g] :
            LET register == regmap[g][k]
                fw == firmware[g]
            IN  /\ register.size # 0
                /\ fw.gpio_out = 0 => register.name.block # "gpio_out"
                /\ fw.gpio_in = 0 => register.name.block # "gpio_in"
                /\ fw.pwm = 0 => register.name.block # "pwm"
                /\ fw.stepgen = 0 => register.name.block # "stepgen"
                /\ Len(fw.encoders) = 0 => register.name.block # "encoder"

\* C14: two firmwares with the same numbers of instances, whose encoders
\* differ in pin_Z, min_value, max_value and reset_value, have the same
\* registers with the same sizes in the same order; and in each of them
\* instance i reads bit i of encoder_index_enable and of
\* encoder_reset_index_pulse, and bit i of encoder_index_pulse is instance i's
\* index_pulse, or constant 0 when the instance has no pin_Z.
C14_LayoutFromCountsOnly ==
    pc = "generated" =>
        /\ \A g \in Generations, h \in Generations : regmap[g] = regmap[h]
        /\ \A g \in Generations :
              /\ Len(wiring[g].reads) = Len(firmware[g].encoders)
              /\ Len(wiring[g].index_pulse) = Len(firmware[g].encoders)
              /\ \A i \in 0..(Len(firmware[g].encoders) - 1) :
                    /\ wiring[g].reads[i + 1].index_enable = i
                    /\ wiring[g].reads[i + 1].reset_index_pulse = i
                    /\ wiring[g].index_pulse[i + 1] =
                          (IF firmware[g].encoders[i + 1].pin_Z # {} THEN {i} ELSE {})
                    /\ \E k \in DOMAIN regmap[g] :
                          /\ regmap[g][k].name = Name("encoder", {}, "index_pulse")
                          /\ i < regmap[g][k].size

\* Two encoders each; in one firmware only the second has pin_Z and bounds,
\* in the other only the first.
C14_Witness ==
    /\ pc = "generated"
    /\ Len(firmware[1].encoders) = 2
    /\ firmware[1].encoders[1].pin_Z = {} /\ firmware[1].encoders[2].pin_Z # {}
    /\ firmware[2].encoders[1].pin_Z # {} /\ firmware[2].encoders[2].pin_Z = {}
    /\ firmware[1].encoders[2].min_value # {}
    /\ firmware[2].encoders[2].min_value = {}

AtBound(i, c) ==
    \/ cfg[i].min_value # None /\ c = Val(cfg[i].min_value)
    \/ cfg[i].max_value # None /\ c = Val(cfg[i].max_value)

C21_LatencyThreeEdges ==
    (probe.phase = "held" /\ probe.clean) =>
        /\ probe.age \in {1, 2} => counter[0] = probe.base
        /\ probe.age >= 3 =>
              /\ counter[0] = probe.after
              /\ ~AtBound(0, probe.base) =>
                    \/ probe.after = probe.base + 1
                    \/ probe.after = probe.base - 1

C21_Witness ==
    /\ probe.phase = "held"
    /\ probe.clean
    /\ probe.age = MaxHeld
    /\ ~AtBound(0, probe.base)
    /\ counter[0] = probe.base - 1
    /\ cfg[0].pin_Z # None


\* C22: two states of the module that agree on counter, index_pulse,
\* index_enable, reset_index_pulse, reset and on the slots 1 and 2 of the
\* histories of A, B and Z have the same counter, index_pulse and
\* index_enable after one clock edge, whatever slot 0 of the histories holds
\* and whatever pad levels the edge samples in either of them.
AgreeDelayed(i, j) ==
    /\ counter[i] = counter[j]
    /\ index_pulse[i] = index_pulse[j]
    /\ index_enable[i] = index_enable[j]
    /\ reset_index_pulse[i] = reset_index_pulse[j]
    /\ reset[i] = reset[j]
    /\ \A k \in {1, 2} :
          /\ pin_A_delayed[i][k] = pin_A_delayed[j][k]
          /\ pin_B_delayed[i][k] = pin_B_delayed[j][k]
          /\ pin_Z_delayed[i][k] = pin_Z_delayed[j][k]

C22_DecodeFromDelayedOnly ==
    [][(pc \in {"yield", "yield_apart"} /\ AgreeDelayed(0, 1)) =>
          /\ counter'[0] = counter'[1]
          /\ index_pulse'[0] = index_pulse'[1]
          /\ index_enable'[0] = index_enable'[1]]_vars

\* After the compared edge: the runs differed in slot 0 of every history
\* before it (now slot 1) and sampled different levels on every pad, an index
\* flank has been latched and the counter has left reset_value.
C22_Witness ==
    /\ pc = "decoded"
    /\ \A k \in {0, 1} :
          /\ pin_A_delayed[0][k] # pin_A_delayed[1][k]
          /\ pin_B_delayed[0][k] # pin_B_delayed[1][k]
          /\ pin_Z_delayed[0][k] # pin_Z_delayed[1][k]
    /\ index_pulse[0] /\ index_pulse[1]
    /\ counter[0] = counter[1]
    /\ counter[0] # cfg[0].reset_value


\* C23: the status registers of one instance show its counter and its
\* index_pulse of the same tick: in the first cycle in which bit i of
\* encoder_index_pulse shows the pulse set by an index edge that also reset
\* the counter, encoder_<i>_counter shows reset_value.
C23_StatusSnapshot ==
    [][\A i \in Units :
          (index_enable[i] /\ index_flank(i) /\ ~mmio_index_pulse[i]) =>
              (mmio_index_pulse'[i] => mmio_counter'[i] = cfg[i].reset_value)]_vars

====
